---- MODULE Spec2Model ----
(***************************************************************************)
(* Model of src/main.py: a Telegram bot that transcribes a voice message,  *)
(* asks a text-generation model for a translation and a definition of each *)
(* extracted word, and keeps a process-wide billing ledger.                *)
(*                                                                         *)
(* Money is fixed point.  Raw cost is counted in units of 1e-7 USD and the *)
(* display cost in units of 1e-8 UZS, so that every price of the source is *)
(* an integer: 0.006 USD per minute = 60000, 0.40 USD per million prompt   *)
(* tokens = 4, 1.60 USD per million completion tokens = 16, and the rate   *)
(* 20000.2 UZS per USD = 200002 display units per raw unit.                *)
(*                                                                         *)
(* A pipeline run is a coroutine.  Its position pc names the external call *)
(* it is waiting on; one action is the return (or the raise) of that call  *)
(* followed by all the code up to the next external call.  The two OpenAI  *)
(* calls are synchronous in the source; giving them a position of their    *)
(* own allows more interleavings than the event loop does, never fewer.    *)
(***************************************************************************)
EXTENDS Integers, Sequences, FiniteSets, TLC

VARIABLES billing, owner, run, tmpfile, sent, calls, cmd

vars == <<billing, owner, run, tmpfile, sent, calls, cmd>>

(***************************************************************************)
(* Bounds of the model.                                                    *)
(***************************************************************************)
MaxTok == 1
MaxDuration == 2
MaxPieces == 3

(* the voice messages that arrive, one pipeline run each *)
Runs == {1, 2}

(* voice.duration of the incoming messages, in seconds; short, so that the *)
(* display totals stay below 2^31                                          *)
Durations == 1..MaxDuration

(* Token counts a usage field can hold; Missing is a field that is absent  *)
(* or None, so that reading or adding it raises.                           *)
Missing == -1
TokenCounts == 1..MaxTok

(***************************************************************************)
(* Program constants.                                                      *)
(***************************************************************************)
USD_TO_UZS == 200002
WHISPER_PRICE_PER_MINUTE == 60000
input_price_per_token == 4
output_price_per_token == 16
MinWordLen == 3
NotFound == "Not found"
Absent == "<absent>"

(***************************************************************************)
(* Sequence helpers.                                                       *)
(***************************************************************************)
RECURSIVE SumSeq(_, _)
SumSeq(s, f) == IF s = <<>> THEN 0 ELSE s[1][f] + SumSeq(Tail(s), f)

IsPrefix(s, t) == Len(s) <= Len(t) /\ SubSeq(t, 1, Len(s)) = s

Last(s) == s[Len(s)]

(***************************************************************************)
(* Vocabulary extraction, lines 108-114.  A text is a sequence of          *)
(* characters.                                                             *)
(***************************************************************************)
LowerCase == {"a", "b"}
UpperCase == {"A", "B"}
WordChars == LowerCase \cup UpperCase \cup {"_", "1"}

lower(c) == IF c = "A" THEN "a" ELSE IF c = "B" THEN "b" ELSE c

text_lower(t) == [k \in 1..Len(t) |-> lower(t[k])]

(* re.findall(r'\b\w+\b', s): the maximal runs of word characters of s *)
RECURSIVE findall_from(_, _, _, _)
findall_from(s, k, cur, acc) ==
    IF k > Len(s)
    THEN IF cur = <<>> THEN acc ELSE Append(acc, cur)
    ELSE IF s[k] \in WordChars
         THEN findall_from(s, k + 1, Append(cur, s[k]), acc)
         ELSE findall_from(s, k + 1, <<>>,
                           IF cur = <<>> THEN acc ELSE Append(acc, cur))

findall(s) == findall_from(s, 1, <<>>, <<>>)

(* unique_words without the test of seen *)
RECURSIVE unique_words_no_seen(_, _, _)
unique_words_no_seen(toks, words, seen) ==
    IF toks = <<>> THEN words
    ELSE LET word == Head(toks) IN
         IF Len(word) > MinWordLen
         THEN unique_words_no_seen(Tail(toks), Append(words, word), seen)
         ELSE unique_words_no_seen(Tail(toks), words, seen)

(* the loop of lines 109-114 over the tokens toks, from words/seen *)
RECURSIVE unique_words(_, _, _)
unique_words(toks, words, seen) ==
    IF toks = <<>> THEN words
    ELSE LET word == Head(toks) IN
         IF Len(word) > MinWordLen /\ word \notin seen
         THEN unique_words(Tail(toks), Append(words, word), seen \cup {word})
         ELSE unique_words(Tail(toks), words, seen)

extract_words(t) == unique_words(findall(text_lower(t)), <<>>, {})

(* transcripts the transcription service returns in the model:             *)
(* "", "Abab, a", "abab ABAB baba"                                         *)
Transcripts ==
    { <<>>,
      <<"A", "b", "a", "b", ",", " ", "a">>,
      <<"a", "b", "a", "b", " ", "A", "B", "A", "B", " ", "b", "a", "b", "a">> }

(***************************************************************************)
(* Cost calculation, lines 104 and 164-166.                                *)
(***************************************************************************)
whisper_cost(duration_sec) == (duration_sec * WHISPER_PRICE_PER_MINUTE) \div 60

gpt_cost(total_prompt_tokens, total_completion_tokens) ==
    (total_prompt_tokens * input_price_per_token)
    + (total_completion_tokens * output_price_per_token)

(* f"{x:.4f}" of a raw cost and f"{x:.2f}" of a display cost: the value    *)
(* rounded to units of 1e-4 USD and of 1e-2 UZS                            *)
fmt4(raw) == (raw + 500) \div 1000
fmt2(uzs) == (uzs + 500000) \div 1000000

(***************************************************************************)
(* The ledger, lines 23-44.                                                *)
(***************************************************************************)
billing_init ==
    [entries |-> <<>>, total_raw |-> 0, total_uzs |-> 0, total_tokens |-> 0]

new_entry(model_name, cost_usd, tokens, note) ==
    [model |-> model_name, raw_sum |-> cost_usd,
     sum_uzs |-> cost_usd * USD_TO_UZS, tokens |-> tokens, note |-> note]

null_entry == new_entry("", 0, 0, <<>>)

(* add_billing_entry without line 43 *)
add_billing_entry_no_tokens(model_name, cost_usd, tokens, note) ==
    LET entry == new_entry(model_name, cost_usd, tokens, note) IN
    [entries |-> Append(billing.entries, entry),
     total_raw |-> billing.total_raw + cost_usd,
     total_uzs |-> billing.total_uzs + entry.sum_uzs,
     total_tokens |-> billing.total_tokens]

(* add_billing_entry with insert(0, entry) for append(entry) *)
add_billing_entry_insert_first(model_name, cost_usd, tokens, note) ==
    LET entry == new_entry(model_name, cost_usd, tokens, note) IN
    [entries |-> <<entry>> \o billing.entries,
     total_raw |-> billing.total_raw + cost_usd,
     total_uzs |-> billing.total_uzs + entry.sum_uzs,
     total_tokens |-> billing.total_tokens + tokens]

(* the value of billing after add_billing_entry; the entry it returns is   *)
(* the last one of the result                                              *)
add_billing_entry(model_name, cost_usd, tokens, note) ==
    LET entry == new_entry(model_name, cost_usd, tokens, note) IN
    [entries |-> Append(billing.entries, entry),
     total_raw |-> billing.total_raw + cost_usd,
     total_uzs |-> billing.total_uzs + entry.sum_uzs,
     total_tokens |-> billing.total_tokens + tokens]

(***************************************************************************)
(* Messages the bot sends.  Every message has the same fields; a kind uses *)
(* the ones its f-string shows.  error is the exception text str(e).       *)
(***************************************************************************)
msg_base ==
    [kind |-> "", text |-> <<>>, word |-> <<>>, translate |-> "",
     definition |-> "", raw |-> 0, uzs |-> 0, tokens |-> 0, error |-> ""]

(* line 100 *)
msg_recognized(text) == [msg_base EXCEPT !.kind = "recognized", !.text = text]

(* line 106 *)
msg_whisper(entry) ==
    [msg_base EXCEPT !.kind = "whisper_billing",
                     !.raw = fmt4(entry.raw_sum), !.uzs = fmt2(entry.sum_uzs)]

(* lines 156-161 *)
msg_word(word_dict) ==
    [msg_base EXCEPT !.kind = "word", !.word = word_dict.word,
                     !.translate = word_dict.translate,
                     !.definition = word_dict.definition]

(* line 168 *)
msg_gpt(total_tokens, entry) ==
    [msg_base EXCEPT !.kind = "gpt_billing", !.tokens = total_tokens,
                     !.raw = fmt4(entry.raw_sum), !.uzs = fmt2(entry.sum_uzs)]

(* line 171 *)
msg_error(e) == [msg_base EXCEPT !.kind = "error_in_recognition", !.error = e]

(* line 75 *)
msg_generic == [msg_base EXCEPT !.kind = "generic"]

(***************************************************************************)
(* Responses of the text-generation service, as line 134 and lines 148-150 *)
(* read them.  parse is what json.loads makes of the content: "invalid" is *)
(* a content it rejects, "nonobject" a JSON value that is no object (null, *)
(* a list, a number, a string), "object" a JSON object, whose two keys may *)
(* be absent.                                                              *)
(***************************************************************************)
TokOpt == TokenCounts \cup {Missing}

Usages ==
    [prompt_tokens : TokOpt, completion_tokens : TokOpt, total_tokens : TokOpt]

no_usage ==
    [prompt_tokens |-> Missing, completion_tokens |-> Missing,
     total_tokens |-> Missing]

Contents ==
    { [parse |-> p, translate |-> Absent, definition |-> Absent] :
          p \in {"invalid", "nonobject"} }
    \cup
    { [parse |-> "object", translate |-> t, definition |-> d] :
          t \in {Absent, "tr"}, d \in {Absent, "def"} }

Responses ==
    { [raises |-> TRUE, content |-> [parse |-> "invalid", translate |-> Absent,
                                     definition |-> Absent],
       usage |-> no_usage] }
    \cup [raises : {FALSE}, content : Contents, usage : Usages]

usage_ok(usage) ==
    /\ usage.prompt_tokens # Missing
    /\ usage.completion_tokens # Missing
    /\ usage.total_tokens # Missing

(***************************************************************************)
(* The state of one run of handle_voice: its position and its locals.      *)
(* fault is the first exception raised in the run that reached the except  *)
(* clause or left the handler ("none" while there is none); the program    *)
(* keeps it in no variable.                                                *)
(***************************************************************************)
run_init ==
    [pc |-> "idle", duration_sec |-> 0, text |-> <<>>, words |-> <<>>,
     word_list |-> <<>>, total_prompt_tokens |-> 0,
     total_completion_tokens |-> 0, total_tokens |-> 0,
     whisper_added |-> null_entry, gpt_added |-> null_entry,
     i |-> 0, j |-> 0, e |-> "none", propagating |-> FALSE,
     fault |-> "none"]

calls_init ==
    [n |-> 0, all_prompt |-> 0, all_completion |-> 0, all_total |-> 0,
     kept_prompt |-> 0, kept_completion |-> 0, kept_total |-> 0,
     log |-> <<>>]

cmd_init == [reply |-> <<>>]

Init ==
    /\ billing = billing_init
    /\ owner = <<>>
    /\ run = [r \in Runs |-> run_init]
    /\ tmpfile = [r \in Runs |-> "absent"]
    /\ sent = [r \in Runs |-> <<>>]
    /\ calls = [r \in Runs |-> calls_init]
    /\ cmd = cmd_init

model_name == "gpt-4.1-mini"

(* get(key, "Not found") of lines 141-142 *)
dict_get(value) == IF value = Absent THEN NotFound ELSE value

(* make_word_dict with the two fields exchanged *)
make_word_dict_swapped(word, data) ==
    [word |-> word, translate |-> dict_get(data.definition),
     definition |-> dict_get(data.translate)]

(* lines 139-143 *)
make_word_dict(word, data) ==
    [word |-> word, translate |-> dict_get(data.translate),
     definition |-> dict_get(data.definition)]

(* lines 147-152: the three additions in order, left at the first one that *)
(* raises                                                                  *)
accumulate(L, usage) ==
    IF usage.prompt_tokens = Missing THEN L
    ELSE LET L1 == [L EXCEPT !.total_prompt_tokens = @ + usage.prompt_tokens] IN
         IF usage.completion_tokens = Missing THEN L1
         ELSE LET L2 == [L1 EXCEPT !.total_completion_tokens =
                                        @ + usage.completion_tokens] IN
              IF usage.total_tokens = Missing THEN L2
              ELSE [L2 EXCEPT !.total_tokens = @ + usage.total_tokens]

first_fault(fault, exc) == IF fault = "none" THEN exc ELSE fault

(* an exception reaches the except clause of line 170, which calls         *)
(* reply_text(f"Error in recognition: {str(e)}")                           *)
Except(r, exc) ==
    run' = [run EXCEPT ![r].pc = "reply_except", ![r].e = exc,
                       ![r].fault = first_fault(@, exc)]

(* an exception leaves handle_voice and the application calls              *)
(* error_handler                                                           *)
Propagate(r, exc) ==
    run' = [run EXCEPT ![r].pc = "error_handler", ![r].e = exc,
                       ![r].propagating = TRUE,
                       ![r].fault = first_fault(@, exc)]

(* BillGpt recording under the model name of the transcription entry *)
BillGpt_as_whisper(r, L) ==
    /\ billing' = add_billing_entry("whisper-1",
                      gpt_cost(L.total_prompt_tokens, L.total_completion_tokens),
                      L.total_tokens, <<"per voice analysis">>)
    /\ owner' = Append(owner, r)
    /\ run' = [run EXCEPT ![r] = [L EXCEPT !.pc = "reply_gpt",
                                            !.gpt_added = Last(billing'.entries)]]

(* lines 163-168 up to the call of reply_text, from the locals L *)
BillGpt(r, L) ==
    /\ billing' = add_billing_entry(model_name,
                      gpt_cost(L.total_prompt_tokens, L.total_completion_tokens),
                      L.total_tokens, <<"per voice analysis">>)
    /\ owner' = Append(owner, r)
    /\ run' = [run EXCEPT ![r] = [L EXCEPT !.pc = "reply_gpt",
                                            !.gpt_added = Last(billing'.entries)]]

(* StartSending that bills only when there is a word record *)
StartSending_skip_empty(r, L) ==
    IF L.word_list # <<>>
    THEN /\ run' = [run EXCEPT ![r] = [L EXCEPT !.pc = "reply_word", !.j = 1]]
         /\ UNCHANGED <<billing, owner>>
    ELSE /\ run' = [run EXCEPT ![r] = [L EXCEPT !.pc = "remove"]]
         /\ UNCHANGED <<billing, owner>>

(* StartSending with lines 163-168 moved before the loop of line 155 *)
StartSending_bill_first(r, L) == BillGpt(r, L)

(* lines 155-156: the first reply_text of the result loop, or the billing  *)
(* when word_list is empty                                                 *)
StartSending(r, L) ==
    IF L.word_list # <<>>
    THEN /\ run' = [run EXCEPT ![r] = [L EXCEPT !.pc = "reply_word", !.j = 1]]
         /\ UNCHANGED <<billing, owner>>
    ELSE BillGpt(r, L)

(* NextWord leaving the loop after the first call *)
NextWord_send_early(r, L) ==
    IF L.i = 0 /\ L.i < Len(L.words)
    THEN /\ run' = [run EXCEPT ![r] = [L EXCEPT !.pc = "chat_create",
                                                !.i = L.i + 1]]
         /\ UNCHANGED <<billing, owner>>
    ELSE StartSending(r, L)

(* line 123: the next text-generation call, or the end of the loop *)
NextWord(r, L) ==
    IF L.i < Len(L.words)
    THEN /\ run' = [run EXCEPT ![r] = [L EXCEPT !.pc = "chat_create",
                                                !.i = L.i + 1]]
         /\ UNCHANGED <<billing, owner>>
    ELSE StartSending(r, L)

(***************************************************************************)
(* handle_voice, lines 82-178.                                             *)
(***************************************************************************)
(* lines 83-86: a voice message arrives and the run awaits get_file *)
HandleVoice(r, Ds) ==
    /\ run[r].pc = "idle"
    /\ \E d \in Ds :
          run' = [run EXCEPT ![r].pc = "get_file", ![r].duration_sec = d]
    /\ UNCHANGED <<billing, owner, tmpfile, sent, calls, cmd>>

(* line 86 returns; line 87 creates the temporary file; line 88 awaits *)
GetFile(r) ==
    /\ run[r].pc = "get_file"
    /\ \/ /\ run' = [run EXCEPT ![r].pc = "download"]
          /\ tmpfile' = [tmpfile EXCEPT ![r] = "exists"]
       \/ /\ Propagate(r, "get_file")
          /\ UNCHANGED tmpfile
    /\ UNCHANGED <<billing, owner, sent, calls, cmd>>

(* line 88 returns or raises; the with block closes the file and, with     *)
(* delete=False, leaves it on disk; lines 89-94 call the transcription     *)
Download(r) ==
    /\ run[r].pc = "download"
    /\ \/ run' = [run EXCEPT ![r].pc = "transcribe"]
       \/ Propagate(r, "download")
    /\ UNCHANGED <<billing, owner, tmpfile, sent, calls, cmd>>

(* lines 93-100: the transcription returns a text or raises *)
Transcribe(r, Ts) ==
    /\ run[r].pc = "transcribe"
    /\ \/ \E t \in Ts :
             run' = [run EXCEPT ![r].pc = "reply_text", ![r].text = t]
       \/ Except(r, "transcription")
    /\ UNCHANGED <<billing, owner, tmpfile, sent, calls, cmd>>

(* ReplyText with voice kept in a module-level variable that every voice   *)
(* message overwrites: line 103 reads the longest duration received        *)
ReplyText_shared_voice(r) ==
    /\ run[r].pc = "reply_text"
    /\ \/ LET duration_sec ==
                 CHOOSE d \in {run[q].duration_sec : q \in Runs} :
                     \A q \in Runs : run[q].duration_sec <= d
          IN /\ sent' = [sent EXCEPT ![r] =
                            Append(@, msg_recognized(run[r].text))]
             /\ billing' = add_billing_entry("whisper-1",
                               whisper_cost(duration_sec), 0,
                               <<"voice duration", duration_sec>>)
             /\ owner' = Append(owner, r)
             /\ run' = [run EXCEPT ![r].pc = "reply_whisper",
                                ![r].whisper_added = Last(billing'.entries)]
       \/ /\ Except(r, "send")
          /\ UNCHANGED <<billing, owner, sent>>
    /\ UNCHANGED <<tmpfile, calls, cmd>>

(* line 100 returns; lines 103-106 bill the transcription and await the    *)
(* billing message                                                         *)
ReplyText(r) ==
    /\ run[r].pc = "reply_text"
    /\ \/ /\ sent' = [sent EXCEPT ![r] = Append(@, msg_recognized(run[r].text))]
          /\ billing' = add_billing_entry("whisper-1",
                            whisper_cost(run[r].duration_sec), 0,
                            <<"voice duration", run[r].duration_sec>>)
          /\ owner' = Append(owner, r)
          /\ run' = [run EXCEPT ![r].pc = "reply_whisper",
                             ![r].whisper_added = Last(billing'.entries)]
       \/ /\ Except(r, "send")
          /\ UNCHANGED <<billing, owner, sent>>
    /\ UNCHANGED <<tmpfile, calls, cmd>>

(* line 106 returns; lines 109-125 extract the words and make the first    *)
(* text-generation call                                                    *)
ReplyWhisper(r) ==
    /\ run[r].pc = "reply_whisper"
    /\ \/ /\ sent' = [sent EXCEPT ![r] =
                         Append(@, msg_whisper(run[r].whisper_added))]
          /\ NextWord(r, [run[r] EXCEPT !.words = extract_words(run[r].text),
                                        !.i = 0])
       \/ /\ Except(r, "send")
          /\ UNCHANGED <<billing, owner, sent>>
    /\ UNCHANGED <<tmpfile, calls, cmd>>

(* lines 125-152: one text-generation call returns resp or raises; calls   *)
(* is the record of the calls made, which the program does not keep        *)
record_call(c, resp, word) ==
    LET u == resp.usage
        counted == ~resp.raises /\ usage_ok(u)
        kept == counted /\ resp.content.parse = "object"
    IN [n |-> c.n + 1,
        all_prompt |-> c.all_prompt + (IF counted THEN u.prompt_tokens ELSE 0),
        all_completion |->
            c.all_completion + (IF counted THEN u.completion_tokens ELSE 0),
        all_total |-> c.all_total + (IF counted THEN u.total_tokens ELSE 0),
        kept_prompt |-> c.kept_prompt + (IF kept THEN u.prompt_tokens ELSE 0),
        kept_completion |->
            c.kept_completion + (IF kept THEN u.completion_tokens ELSE 0),
        kept_total |-> c.kept_total + (IF kept THEN u.total_tokens ELSE 0),
        log |-> Append(c.log,
                       IF resp.raises
                       THEN [word |-> word, parse |-> "raised",
                             translate |-> Absent, definition |-> Absent]
                       ELSE [word |-> word, parse |-> resp.content.parse,
                             translate |-> resp.content.translate,
                             definition |-> resp.content.definition])]

(* lines 133-152 for a response that was returned: the locals after the    *)
(* body of the loop, for the contents the body does not raise on           *)
enrich(L, resp) ==
    IF resp.content.parse = "invalid"
    THEN L
    ELSE accumulate(
             [L EXCEPT !.word_list =
                  Append(@, make_word_dict(L.words[L.i], resp.content))],
             resp.usage)

ChatCreate(r, Rs) ==
    /\ run[r].pc = "chat_create"
    /\ \E resp \in Rs :
          /\ calls' = [calls EXCEPT ![r] =
                          record_call(@, resp, run[r].words[run[r].i])]
          /\ IF resp.raises
             THEN Except(r, "chat_create") /\ UNCHANGED <<billing, owner>>
             ELSE IF resp.content.parse = "nonobject"
             THEN Except(r, "word_record") /\ UNCHANGED <<billing, owner>>
             ELSE NextWord(r, enrich(run[r], resp))
    /\ UNCHANGED <<tmpfile, sent, cmd>>

(* ReplyWord going through word_list from its end *)
ReplyWord_reversed(r) ==
    /\ run[r].pc = "reply_word"
    /\ \/ /\ sent' = [sent EXCEPT ![r] =
                         Append(@, msg_word(run[r].word_list[
                             Len(run[r].word_list) - run[r].j + 1]))]
          /\ IF run[r].j < Len(run[r].word_list)
             THEN /\ run' = [run EXCEPT ![r].j = @ + 1]
                  /\ UNCHANGED <<billing, owner>>
             ELSE BillGpt(r, run[r])
       \/ /\ Except(r, "send")
          /\ UNCHANGED <<billing, owner, sent>>
    /\ UNCHANGED <<tmpfile, calls, cmd>>

(* line 156 returns: the next word message, or lines 163-168 *)
ReplyWord(r) ==
    /\ run[r].pc = "reply_word"
    /\ \/ /\ sent' = [sent EXCEPT ![r] =
                         Append(@, msg_word(run[r].word_list[run[r].j]))]
          /\ IF run[r].j < Len(run[r].word_list)
             THEN /\ run' = [run EXCEPT ![r].j = @ + 1]
                  /\ UNCHANGED <<billing, owner>>
             ELSE BillGpt(r, run[r])
       \/ /\ Except(r, "send")
          /\ UNCHANGED <<billing, owner, sent>>
    /\ UNCHANGED <<tmpfile, calls, cmd>>

(* line 168 returns; the finally clause calls os.remove *)
ReplyGpt(r) ==
    /\ run[r].pc = "reply_gpt"
    /\ \/ /\ sent' = [sent EXCEPT ![r] =
                         Append(@, msg_gpt(run[r].total_tokens,
                                           run[r].gpt_added))]
          /\ run' = [run EXCEPT ![r].pc = "remove"]
       \/ /\ Except(r, "send")
          /\ UNCHANGED sent
    /\ UNCHANGED <<billing, owner, tmpfile, calls, cmd>>

(* ReplyExcept without the finally clause *)
ReplyExcept_no_finally(r) ==
    /\ run[r].pc = "reply_except"
    /\ \/ /\ sent' = [sent EXCEPT ![r] = Append(@, msg_error(run[r].e))]
          /\ run' = [run EXCEPT ![r].pc = "done"]
       \/ /\ run' = [run EXCEPT ![r].pc = "error_handler", ![r].e = "send",
                                ![r].propagating = TRUE]
          /\ UNCHANGED sent
    /\ UNCHANGED <<billing, owner, tmpfile, calls, cmd>>

(* line 171 returns, or raises and the new exception leaves the handler;   *)
(* in both cases the finally clause calls os.remove                        *)
ReplyExcept(r) ==
    /\ run[r].pc = "reply_except"
    /\ \/ /\ sent' = [sent EXCEPT ![r] = Append(@, msg_error(run[r].e))]
          /\ run' = [run EXCEPT ![r].pc = "remove"]
       \/ /\ run' = [run EXCEPT ![r].pc = "remove", ![r].e = "send",
                                ![r].propagating = TRUE]
          /\ UNCHANGED sent
    /\ UNCHANGED <<billing, owner, tmpfile, calls, cmd>>

(* Remove letting the exception of os.remove leave handle_voice *)
Remove_raising(r) ==
    /\ run[r].pc = "remove"
    /\ \/ /\ tmpfile' = [tmpfile EXCEPT ![r] = "removed"]
          /\ run' = [run EXCEPT ![r].pc =
                        IF run[r].propagating THEN "error_handler" ELSE "done"]
       \/ /\ tmpfile' = [tmpfile EXCEPT ![r] = "remove_failed"]
          /\ Propagate(r, "remove")
    /\ UNCHANGED <<billing, owner, sent, calls, cmd>>

(* lines 175-178: os.remove deletes the file, or raises and is swallowed;  *)
(* the file is then still on disk, which tmpfile tells from a file nobody  *)
(* tried to delete                                                         *)
Remove(r) ==
    /\ run[r].pc = "remove"
    /\ \/ tmpfile' = [tmpfile EXCEPT ![r] = "removed"]
       \/ tmpfile' = [tmpfile EXCEPT ![r] = "remove_failed"]
    /\ run' = [run EXCEPT ![r].pc =
                  IF run[r].propagating THEN "error_handler" ELSE "done"]
    /\ UNCHANGED <<billing, owner, sent, calls, cmd>>

(* ErrorHandler whose reply never returns *)
ErrorHandler_blocked(r) ==
    /\ run[r].pc = "error_handler"
    /\ ~run[r].propagating
    /\ \/ sent' = [sent EXCEPT ![r] = Append(@, msg_generic)]
       \/ UNCHANGED sent
    /\ run' = [run EXCEPT ![r].pc = "done"]
    /\ UNCHANGED <<billing, owner, tmpfile, calls, cmd>>

(***************************************************************************)
(* error_handler, lines 64-79, for an exception that left handle_voice: it *)
(* replies with the generic message; an exception of that reply is logged  *)
(* by the application.                                                     *)
(***************************************************************************)
ErrorHandler(r) ==
    /\ run[r].pc = "error_handler"
    /\ \/ sent' = [sent EXCEPT ![r] = Append(@, msg_generic)]
       \/ UNCHANGED sent
    /\ run' = [run EXCEPT ![r].pc = "done"]
    /\ UNCHANGED <<billing, owner, tmpfile, calls, cmd>>

(***************************************************************************)
(* The commands, lines 47-61 and 181-182.  cmd.reply is the last text a    *)
(* command was answered with.                                              *)
(***************************************************************************)
summary_line(k, e) ==
    [index |-> k, model |-> e.model, raw |-> fmt4(e.raw_sum),
     uzs |-> fmt2(e.sum_uzs), tokens |-> e.tokens, note |-> e.note]

(* balance_text with line 48 testing billing["total_tokens"] *)
balance_text_empty_by_tokens ==
    IF billing.total_tokens = 0
    THEN [kind |-> "empty", lines |-> <<>>, total_raw |-> 0, total_uzs |-> 0,
          total_tokens |-> 0]
    ELSE [kind |-> "summary",
          lines |-> [k \in 1..Len(billing.entries) |->
                        summary_line(k, billing.entries[k])],
          total_raw |-> fmt4(billing.total_raw),
          total_uzs |-> fmt2(billing.total_uzs),
          total_tokens |-> billing.total_tokens]

balance_text ==
    IF billing.entries = <<>>
    THEN [kind |-> "empty", lines |-> <<>>, total_raw |-> 0, total_uzs |-> 0,
          total_tokens |-> 0]
    ELSE [kind |-> "summary",
          lines |-> [k \in 1..Len(billing.entries) |->
                        summary_line(k, billing.entries[k])],
          total_raw |-> fmt4(billing.total_raw),
          total_uzs |-> fmt2(billing.total_uzs),
          total_tokens |-> billing.total_tokens]

fixed_text(kind) ==
    [kind |-> kind, lines |-> <<>>, total_raw |-> 0, total_uzs |-> 0,
     total_tokens |-> 0]

(* A command handler is one reply_text.  It returns and the user has the   *)
(* text; or it raises, the exception leaves the handler, and error_handler *)
(* (lines 75-79) replies with the generic message, unless that reply       *)
(* raises too.  None of this reads or writes anything a run shares, so the *)
(* handler and its error handler are one step.                             *)
Reply(text) ==
    \/ cmd' = [cmd EXCEPT !.reply = <<text>>]
    \/ cmd' = [cmd EXCEPT !.reply = <<fixed_text("generic")>>]
    \/ UNCHANGED cmd

balance_command ==
    /\ Reply(balance_text)
    /\ UNCHANGED <<billing, owner, run, tmpfile, sent, calls>>

start ==
    /\ Reply(fixed_text("greeting"))
    /\ UNCHANGED <<billing, owner, run, tmpfile, sent, calls>>

(***************************************************************************)
(* Two specifications of the same handlers.  Spec runs every voice message *)
(* of Runs, interleaved at every position, with the commands; message r is *)
(* r seconds long, and the transcripts and responses are a small choice.   *)
(* SpecOne runs one voice message over every duration, every transcript    *)
(* and every response, without commands.  SpecText runs one voice message *)
(* of one second over every transcript of Texts, with well-formed          *)
(* responses.                                                              *)
(***************************************************************************)
SomeTranscripts == { <<"A", "b", "a", "b", ",", " ", "a">> }

SomeResponses ==
    { resp \in Responses :
        \/ resp.raises
        \/ /\ resp.content.parse = "invalid"
           /\ resp.usage = no_usage
        \/ /\ resp.content.parse = "object"
           /\ resp.content.translate # Absent
           /\ resp.content.definition # Absent
           /\ resp.usage = [prompt_tokens |-> 1, completion_tokens |-> 1,
                             total_tokens |-> 1] }

(* the transcripts of SpecText: up to MaxPieces of the pieces "Abab ",      *)
(* "abab,", "ba_1 ", "ab" and "b " one after the other                     *)
Pieces ==
    { <<"A", "b", "a", "b", " ">>,
      <<"a", "b", "a", "b", ",">>,
      <<"b", "a", "_", "1", " ">>,
      <<"a", "b">>,
      <<"b", " ">> }

RECURSIVE TextsOf(_)
TextsOf(n) ==
    IF n = 0 THEN {<<>>}
    ELSE LET T == TextsOf(n - 1) IN T \cup {t \o p : t \in T, p \in Pieces}

Texts == TextsOf(MaxPieces)

OkResponses ==
    { resp \in Responses :
        /\ ~resp.raises
        /\ resp.content = [parse |-> "object", translate |-> "tr",
                           definition |-> "def"]
        /\ resp.usage = [prompt_tokens |-> 1, completion_tokens |-> 1,
                         total_tokens |-> 1] }

Step(r, Ds, Ts, Rs) ==
    \/ HandleVoice(r, Ds)
    \/ GetFile(r)
    \/ Download(r)
    \/ Transcribe(r, Ts)
    \/ ReplyText(r)
    \/ ReplyWhisper(r)
    \/ ChatCreate(r, Rs)
    \/ ReplyWord(r)
    \/ ReplyGpt(r)
    \/ ReplyExcept(r)
    \/ Remove(r)
    \/ ErrorHandler(r)

Command ==
    \/ balance_command
    \/ start

Next ==
    \/ \E r \in Runs : Step(r, {r}, SomeTranscripts, SomeResponses)
    \/ Command

Spec == Init /\ [][Next]_vars

NextOne == Step(1, Durations, Transcripts, Responses)

SpecOne == Init /\ [][NextOne]_vars

NextText == Step(1, {1}, Texts, OkResponses)

SpecText == Init /\ [][NextText]_vars

(* SpecFair is SpecOne in which every call the run waits for returns or    *)
(* raises in the end.                                                      *)
SpecFair ==
    Init /\ [][NextOne]_vars /\ WF_vars(run[1].pc # "idle" /\ NextOne)

(***************************************************************************)
(* What the claims speak of.                                               *)
(***************************************************************************)
Ended(r) == run[r].pc = "done"

Failed(r) == run[r].fault # "none"

FileOnDisk(r) == tmpfile[r] \in {"exists", "remove_failed"}

(* the entries of the ledger that run r recorded, in ledger order *)
RECURSIVE entries_of(_, _, _)
entries_of(r, es, os) ==
    IF es = <<>> THEN <<>>
    ELSE IF Head(os) = r
         THEN <<Head(es)>> \o entries_of(r, Tail(es), Tail(os))
         ELSE entries_of(r, Tail(es), Tail(os))

OwnEntries(r) == entries_of(r, billing.entries, owner)

HasMsg(r, kind) == \E k \in 1..Len(sent[r]) : sent[r][k].kind = kind

MsgCount(r, kind) ==
    Cardinality({k \in 1..Len(sent[r]) : sent[r][k].kind = kind})

HasEntry(r, model) ==
    \E k \in 1..Len(billing.entries) :
        owner[k] = r /\ billing.entries[k].model = model

(* every text-generation call of the run has been made *)
AllCallsMade(r) == calls[r].n = Len(extract_words(run[r].text))

(* every word record of the run has been sent *)
AllWordsSent(r) == MsgCount(r, "word") = Len(run[r].word_list)

(* the run went through extraction, enrichment and reporting, by what it   *)
(* sent and called                                                         *)
Reported(r) ==
    /\ HasMsg(r, "whisper_billing")
    /\ AllCallsMade(r)
    /\ AllWordsSent(r)
    /\ run[r].fault \notin {"chat_create", "word_record"}

(* the place of a kind of message in the order of the stages *)
Rank(kind) ==
    CASE kind = "recognized" -> 1
      [] kind = "whisper_billing" -> 2
      [] kind = "word" -> 3
      [] kind = "gpt_billing" -> 4
      [] OTHER -> 5

(***************************************************************************)
(* C1: in every reachable state the three running totals of the ledger     *)
(* equal the sums of raw_sum, sum_uzs and tokens over its entries (all     *)
(* zero while there is no entry).                                          *)
(***************************************************************************)
C1_TotalsEqualSums ==
    /\ billing.total_raw = SumSeq(billing.entries, "raw_sum")
    /\ billing.total_uzs = SumSeq(billing.entries, "sum_uzs")
    /\ billing.total_tokens = SumSeq(billing.entries, "tokens")

(* two runs have billed, tokens among it, while a run is suspended and a   *)
(* /balance has been answered with a summary                               *)
C1_Witness ==
    /\ Len(billing.entries) >= 3
    /\ billing.total_tokens > 0
    /\ \E r \in Runs : run[r].pc = "reply_gpt"
    /\ cmd.reply # <<>> /\ cmd.reply[1].kind = "summary"

(***************************************************************************)
(* C2: the ledger is append-only: in every step the entries before the     *)
(* step are a prefix of the entries after it.                              *)
(***************************************************************************)
C2_AppendOnly == [][IsPrefix(billing.entries, billing'.entries)]_vars

(* entries of both runs are in the ledger, a run has ended through the     *)
(* error handler, and /balance has been answered                           *)
C2_Witness ==
    /\ \A r \in Runs : OwnEntries(r) # <<>>
    /\ \E r \in Runs : Ended(r) /\ run[r].propagating
    /\ cmd.reply # <<>> /\ cmd.reply[1].kind = "summary"

(***************************************************************************)
(* C3, as claimed: when a run whose transcription call raised has ended,   *)
(* the ledger holds no entry of that run and the temporary file of the run *)
(* is not on disk.                                                         *)
(***************************************************************************)
C3_Original ==
    \A r \in Runs :
        Ended(r) /\ run[r].fault = "transcription"
        => OwnEntries(r) = <<>> /\ ~FileOnDisk(r)

(***************************************************************************)
(* C3, amended: when a run whose transcription call raised has ended, the  *)
(* ledger holds no entry of that run and os.remove was called on the       *)
(* temporary file: the file is gone unless os.remove itself raised.        *)
(***************************************************************************)
C3_NoEntryAndCleanupAttempted ==
    \A r \in Runs :
        Ended(r) /\ run[r].fault = "transcription"
        => OwnEntries(r) = <<>> /\ tmpfile[r] \in {"removed", "remove_failed"}

(* a run whose transcription raised has ended with its file deleted, and   *)
(* the user has the error message                                          *)
C3_Witness ==
    \E r \in Runs :
        /\ Ended(r) /\ run[r].fault = "transcription"
        /\ tmpfile[r] = "removed"
        /\ HasMsg(r, "error_in_recognition")

(***************************************************************************)
(* C4, as claimed: when a run has ended, on whatever path, its temporary   *)
(* file has been deleted.  A file whose deletion was tried and failed is   *)
(* not held against the claim.                                             *)
(***************************************************************************)
C4_CleanupOnAllPaths ==
    \A r \in Runs : Ended(r) => tmpfile[r] # "exists"

(***************************************************************************)
(* C5, as claimed: no run is moved to Failed by a fault in the enrichment  *)
(* of a word, be it a text-generation call that raises or a response that  *)
(* does not parse to an object.                                            *)
(***************************************************************************)
C5_EnrichmentFaultLocal ==
    \A r \in Runs : run[r].fault \notin {"chat_create", "word_record"}

(***************************************************************************)
(* C6, as claimed: a run that reached billing has recorded exactly one     *)
(* text-generation entry, whose tokens and cost come from the usage summed *)
(* over all the text-generation calls of the run, the calls with a dropped *)
(* response included.                                                      *)
(***************************************************************************)
C6_AggregateOverAllCalls ==
    \A r \in Runs :
        run[r].gpt_added # null_entry
        => /\ Cardinality({k \in 1..Len(billing.entries) :
                  owner[k] = r /\ billing.entries[k].model = model_name}) = 1
           /\ run[r].gpt_added.tokens = calls[r].all_total
           /\ run[r].gpt_added.raw_sum =
                  gpt_cost(calls[r].all_prompt, calls[r].all_completion)

(***************************************************************************)
(* C7, as claimed: a call whose usage is absent or malformed adds nothing  *)
(* to any of the three accumulators, so each accumulator is the sum of its *)
(* field over the enriched calls whose usage was complete.                 *)
(***************************************************************************)
C7_MalformedUsageAddsZero ==
    \A r \in Runs :
        /\ run[r].total_prompt_tokens = calls[r].kept_prompt
        /\ run[r].total_completion_tokens = calls[r].kept_completion
        /\ run[r].total_tokens = calls[r].kept_total

C9_RawTextOnlyForTranscription ==
    \A r \in Runs : \A k \in 1..Len(sent[r]) :
        sent[r][k].kind = "error_in_recognition"
        => sent[r][k].error = "transcription"

(***************************************************************************)
(* C10: under every interleaving the entries a run has recorded are the    *)
(* ones it records when alone: none before its transcript message, then    *)
(* the transcription entry of its own duration, then, once it has          *)
(* reported, the text-generation entry of the usage of its own calls.      *)
(***************************************************************************)
C10_RunsIndependent ==
    \A r \in Runs :
        LET W == new_entry("whisper-1", whisper_cost(run[r].duration_sec), 0,
                           <<"voice duration", run[r].duration_sec>>)
            G == new_entry(model_name,
                           gpt_cost(calls[r].kept_prompt,
                                    calls[r].kept_completion),
                           calls[r].kept_total, <<"per voice analysis">>)
        IN OwnEntries(r) =
               IF ~HasMsg(r, "recognized") THEN <<>>
               ELSE IF Reported(r) THEN <<W, G>> ELSE <<W>>

(* both runs have ended without fault, their entries alternate in the      *)
(* ledger, and they used different numbers of tokens                       *)
C10_Witness ==
    /\ \A r \in Runs : Ended(r) /\ ~Failed(r)
    /\ owner = <<1, 2, 1, 2>>
    /\ calls[1].kept_total # calls[2].kept_total


(***************************************************************************)
(* C11: a step in which a command is answered leaves the ledger as it was; *)
(* the answer of /balance is the fixed empty text, without lines or        *)
(* totals, exactly when the ledger has no entry, and otherwise one line    *)
(* per entry, in ledger order and numbered from 1, followed by the three   *)
(* totals.                                                                 *)
(***************************************************************************)
C11_BalanceReply ==
    [][cmd' # cmd =>
         /\ billing' = billing
         /\ owner' = owner
         /\ LET t == cmd'.reply[1]
                es == billing.entries
            IN /\ t.kind \in {"empty", "summary", "greeting", "generic"}
               /\ t.kind = "empty" =>
                      /\ es = <<>>
                      /\ t.lines = <<>>
                      /\ t.total_raw = 0 /\ t.total_uzs = 0
                      /\ t.total_tokens = 0
               /\ t.kind = "summary" =>
                      /\ es # <<>>
                      /\ Len(t.lines) = Len(es)
                      /\ \A k \in 1..Len(es) :
                             /\ t.lines[k].index = k
                             /\ t.lines[k].model = es[k].model
                             /\ t.lines[k].raw = fmt4(es[k].raw_sum)
                             /\ t.lines[k].uzs = fmt2(es[k].sum_uzs)
                             /\ t.lines[k].tokens = es[k].tokens
                             /\ t.lines[k].note = es[k].note
                      /\ t.total_raw = fmt4(billing.total_raw)
                      /\ t.total_uzs = fmt2(billing.total_uzs)
                      /\ t.total_tokens = billing.total_tokens]_vars

(* /balance has been answered with all four entries of two runs *)
C11_Witness ==
    /\ cmd.reply # <<>>
    /\ cmd.reply[1].kind = "summary"
    /\ Len(cmd.reply[1].lines) = 4
    /\ Len(billing.entries) = 4


(***************************************************************************)
(* C12: the words a run has extracted are tokens (maximal runs of word     *)
(* characters) of the lowercased transcript, each longer than 3 and        *)
(* without an upper-case letter; no word occurs twice; every token of the  *)
(* lowercased transcript longer than 3 is among them; and they are in the  *)
(* order of their first occurrence in the transcript.                      *)
(***************************************************************************)
C12_ExtractedWords ==
    \A r \in Runs :
        HasMsg(r, "whisper_billing") =>
        LET s == text_lower(run[r].text)
            w == run[r].words
            IsTok(a, b) ==
                /\ a <= b
                /\ \A k \in a..b : s[k] \in WordChars
                /\ a = 1 \/ s[a - 1] \notin WordChars
                /\ b = Len(s) \/ s[b + 1] \notin WordChars
            Toks == {ab \in (1..Len(s)) \X (1..Len(s)) : IsTok(ab[1], ab[2])}
            Starts(x) == {ab[1] : ab \in {cd \in Toks :
                                             SubSeq(s, cd[1], cd[2]) = x}}
            First(x) == CHOOSE a \in Starts(x) : \A c \in Starts(x) : a <= c
        IN /\ \A i \in 1..Len(w) :
                  /\ Len(w[i]) > 3
                  /\ \A k \in 1..Len(w[i]) : w[i][k] \notin UpperCase
                  /\ Starts(w[i]) # {}
           /\ \A i, j \in 1..Len(w) : i # j => w[i] # w[j]
           /\ \A ab \in Toks :
                  ab[2] - ab[1] + 1 > 3
                  => \E i \in 1..Len(w) : w[i] = SubSeq(s, ab[1], ab[2])
           /\ \A i, j \in 1..Len(w) : i < j => First(w[i]) < First(w[j])

(* "Abab ba_1 abab," has been extracted to abab, ba_1 *)
C12_Witness ==
    /\ run[1].text = <<"A", "b", "a", "b", " ", "b", "a", "_", "1", " ",
                       "a", "b", "a", "b", ",">>
    /\ run[1].words = <<<<"a", "b", "a", "b">>, <<"b", "a", "_", "1">>>>
    /\ HasMsg(1, "whisper_billing")


(***************************************************************************)
(* C13: the word records of a run are, in order, those of its responses    *)
(* that parsed to an object: the word asked for, the translation of the    *)
(* response or "Not found" when the response has none, the definition of   *)
(* the response or "Not found" when it has none.  A response that does not *)
(* parse gives no record, and after it the loop asks for the next          *)
(* extracted word, or ends when there is none.                             *)
(***************************************************************************)
C13_WordRecords ==
    \A r \in Runs :
        LET lg == calls[r].log
            objs == SelectSeq(lg, LAMBDA c : c.parse = "object")
            field(v) == IF v = Absent THEN "Not found" ELSE v
        IN /\ run[r].word_list =
                  [k \in 1..Len(objs) |->
                      [word |-> objs[k].word,
                       translate |-> field(objs[k].translate),
                       definition |-> field(objs[k].definition)]]
           /\ Len(lg) > 0 /\ lg[Len(lg)].parse = "invalid"
              => /\ run[r].fault \notin {"chat_create", "word_record"}
                 /\ IF Len(lg) < Len(run[r].words)
                    THEN run[r].pc = "chat_create" /\ run[r].i = Len(lg) + 1
                    ELSE run[r].pc # "chat_create"

(* the first response did not parse, the second has only a definition *)
C13_Witness ==
    /\ Len(calls[1].log) = 2
    /\ calls[1].log[1].parse = "invalid"
    /\ calls[1].log[2].parse = "object"
    /\ calls[1].log[2].translate = Absent
    /\ calls[1].log[2].definition = "def"
    /\ Len(run[1].word_list) = 1
    /\ run[1].word_list[1].word = calls[1].log[2].word
    /\ run[1].word_list[1].translate = "Not found"
    /\ run[1].word_list[1].definition = "def"


(* the word messages of run r, in the order sent *)
WordMsgs(r) == SelectSeq(sent[r], LAMBDA m : m.kind = "word")

(* the first n word messages of run r are those of its first n records *)
ShowsRecords(r, n) ==
    /\ n <= Len(WordMsgs(r))
    /\ n <= Len(run[r].word_list)
    /\ \A k \in 1..n :
           /\ WordMsgs(r)[k].word = run[r].word_list[k].word
           /\ WordMsgs(r)[k].translate = run[r].word_list[k].translate
           /\ WordMsgs(r)[k].definition = run[r].word_list[k].definition

(* the enrichment loop of run r has ended without raising *)
ReachedReporting(r) ==
    /\ HasMsg(r, "whisper_billing")
    /\ AllCallsMade(r)
    /\ run[r].fault \notin {"chat_create", "word_record"}

(* the transcript message is the first message and precedes every word     *)
(* message; a word message is for a word whose response parsed to an       *)
(* object; the calls are made for the extracted words in their order, the  *)
(* next one after the previous one has returned                            *)
ReportOrder(r) ==
    LET lg == calls[r].log IN
    /\ \A k \in 1..Len(sent[r]) :
           sent[r][k].kind = "word" => k > 1 /\ sent[r][1].kind = "recognized"
    /\ \A k \in 1..Len(WordMsgs(r)) :
           \E c \in 1..Len(lg) :
               lg[c].parse = "object" /\ lg[c].word = WordMsgs(r)[k].word
    /\ Len(lg) = calls[r].n
    /\ Len(lg) <= Len(run[r].words)
    /\ \A k \in 1..Len(lg) : lg[k].word = run[r].words[k]
    /\ run[r].pc = "chat_create" => run[r].i = Len(lg) + 1

(***************************************************************************)
(* C14, as claimed: a run that has reached reporting and has ended has     *)
(* sent exactly one word message for each of its word records, in their    *)
(* order, after the transcript message; its calls were made in extraction  *)
(* order.                                                                  *)
(***************************************************************************)
C14_Original ==
    \A r \in Runs :
        /\ ReportOrder(r)
        /\ Ended(r) /\ ReachedReporting(r)
           => /\ Len(WordMsgs(r)) = Len(run[r].word_list)
              /\ ShowsRecords(r, Len(run[r].word_list))

(***************************************************************************)
(* C14, amended: the word messages a run has sent are those of its first   *)
(* word records, one each and in their order, after the transcript         *)
(* message, and none is for a dropped word; they are all of the records    *)
(* once the text-generation entry is recorded, and in every ended run that *)
(* reached reporting unless a send raised.  The calls are made in          *)
(* extraction order, one at a time.                                        *)
(***************************************************************************)
C14_ReportOrder ==
    \A r \in Runs :
        /\ ReportOrder(r)
        /\ Len(WordMsgs(r)) <= Len(run[r].word_list)
        /\ ShowsRecords(r, Len(WordMsgs(r)))
        /\ HasEntry(r, model_name)
           => Len(WordMsgs(r)) = Len(run[r].word_list)
        /\ Ended(r) /\ ReachedReporting(r) /\ run[r].fault # "send"
           => Len(WordMsgs(r)) = Len(run[r].word_list)

(* two words were enriched in order and shown in order, and the run ended  *)
(* with its text-generation entry                                          *)
C14_Witness ==
    /\ Ended(1) /\ HasEntry(1, model_name)
    /\ Len(run[1].words) = 2 /\ run[1].words[1] # run[1].words[2]
    /\ Len(WordMsgs(1)) = 2
    /\ WordMsgs(1)[1].word = run[1].words[1]
    /\ WordMsgs(1)[2].word = run[1].words[2]
    /\ sent[1][1].kind = "recognized"


(***************************************************************************)
(* C15: the step in which os.remove returns or raises changes nothing but  *)
(* the file: the messages, the ledger and the fault of the run are as      *)
(* before, and the run goes on to where it goes when the file is deleted   *)
(* (its end, or the error handler for an exception that was already        *)
(* leaving the handler).  A run without fault whose deletion failed has    *)
(* sent no error message.                                                  *)
(***************************************************************************)
C15_RemoveFailureSwallowed ==
    [][\A r \in Runs :
           run[r].pc = "remove" /\ run'[r].pc # "remove"
           => /\ tmpfile'[r] \in {"removed", "remove_failed"}
              /\ \A q \in Runs \ {r} : tmpfile'[q] = tmpfile[q]
              /\ sent' = sent
              /\ billing' = billing
              /\ owner' = owner
              /\ run'[r] = [run[r] EXCEPT !.pc =
                               IF run[r].propagating THEN "error_handler"
                               ELSE "done"]
              /\ run'[r].fault = "none"
                 => /\ run'[r].pc = "done"
                    /\ \A k \in 1..Len(sent'[r]) :
                           sent'[r][k].kind
                               \notin {"error_in_recognition", "generic"}]_vars

(* deletion failed after a run without fault and after a failed run *)
C15_Witness ==
    /\ Ended(1) /\ ~Failed(1) /\ tmpfile[1] = "remove_failed"
    /\ HasMsg(1, "gpt_billing") /\ Len(OwnEntries(1)) = 2
    /\ Ended(2) /\ Failed(2) /\ tmpfile[2] = "remove_failed"
    /\ HasMsg(2, "error_in_recognition")


(***************************************************************************)
(* C16: when every call a run waits for returns or raises, a run that has  *)
(* started ends: it has then recorded both its entries and tried to delete *)
(* its file, or it has failed.  The run makes at most one text-generation  *)
(* call per extracted word, and has made one per word when it reports.     *)
(***************************************************************************)
C16_RunsEnd ==
    /\ \A r \in Runs :
           run[r].pc # "idle"
           ~> /\ Ended(r)
              /\ \/ Failed(r)
                 \/ /\ Len(OwnEntries(r)) = 2
                    /\ tmpfile[r] \in {"removed", "remove_failed"}
    /\ [](\A r \in Runs :
              /\ calls[r].n <= Len(run[r].words)
              /\ run[r].pc \in {"reply_word", "reply_gpt"}
                 => calls[r].n = Len(run[r].words))

(* a run has ended after a call for each of two words, billed and cleaned *)
C16_Witness ==
    /\ Ended(1) /\ ~Failed(1)
    /\ Len(run[1].words) = 2 /\ calls[1].n = 2
    /\ Len(OwnEntries(1)) = 2 /\ tmpfile[1] = "removed"


(***************************************************************************)
(* C17: a run that has ended without fault has recorded exactly two        *)
(* entries: first the transcription entry, of cost duration/60 times the   *)
(* price per minute and 0 tokens, then one text-generation entry; when the *)
(* run has no word record (no word extracted, or every word dropped) the   *)
(* text-generation entry has cost 0 and 0 tokens.                          *)
(***************************************************************************)
C17_TwoEntries ==
    \A r \in Runs :
        Ended(r) /\ ~Failed(r)
        => LET es == OwnEntries(r) IN
           /\ Len(es) = 2
           /\ es[1].model = "whisper-1"
           /\ es[1].raw_sum * 60 = run[r].duration_sec * 60000
           /\ es[1].tokens = 0
           /\ es[2].model = "gpt-4.1-mini"
           /\ run[r].word_list = <<>>
              => es[2].raw_sum = 0 /\ es[2].sum_uzs = 0 /\ es[2].tokens = 0

(* a run ended without fault after both of its two words were dropped *)
C17_Witness ==
    /\ Ended(1) /\ ~Failed(1)
    /\ calls[1].n = 2
    /\ run[1].word_list = <<>>
    /\ Len(OwnEntries(1)) = 2

(* the entries of run r are none, or its transcription entry, or its        *)
(* transcription entry and then its text-generation entry                  *)
EntryShape(r) ==
    LET es == OwnEntries(r) IN
    /\ Len(es) <= 2
    /\ Len(es) >= 1 => es[1].model = "whisper-1"
    /\ Len(es) = 2 => es[2].model = "gpt-4.1-mini"

(***************************************************************************)
(* C18, as claimed: the entries of a run are none, or its transcription    *)
(* entry, or its transcription entry and then its text-generation entry;   *)
(* a run that has failed after recording its transcription entry has ended *)
(* with that entry alone.                                                  *)
(***************************************************************************)
C18_Original ==
    \A r \in Runs :
        /\ EntryShape(r)
        /\ Ended(r) /\ Failed(r) /\ Len(OwnEntries(r)) >= 1
           => Len(OwnEntries(r)) = 1

(***************************************************************************)
(* C18, amended: the entries of a run are none, or its transcription       *)
(* entry, or its transcription entry and then its text-generation entry;   *)
(* a run that has failed after recording its transcription entry has ended *)
(* with that entry alone when a text-generation call or a word record      *)
(* raised, or a send before the text-generation entry raised; when the     *)
(* send that raised is the one of the text-generation billing message, the *)
(* text-generation entry is in the ledger as well.                         *)
(***************************************************************************)
C18_EntriesOfFailedRun ==
    \A r \in Runs :
        /\ EntryShape(r)
        /\ Ended(r) /\ Failed(r) /\ Len(OwnEntries(r)) >= 1
           => /\ run[r].fault \in {"chat_create", "word_record", "send"}
              /\ run[r].fault \in {"chat_create", "word_record"}
                 => Len(OwnEntries(r)) = 1
              /\ Len(OwnEntries(r)) = 2
                 <=> /\ run[r].fault = "send"
                     /\ ReachedReporting(r)
                     /\ Len(WordMsgs(r)) = Len(run[r].word_list)
                     /\ ~HasMsg(r, "gpt_billing")

(* the send of the text-generation billing message raised after a call:    *)
(* the run has failed with both entries                                    *)
C18_Witness ==
    /\ Ended(1) /\ run[1].fault = "send"
    /\ calls[1].n >= 1
    /\ Len(OwnEntries(1)) = 2
    /\ ~HasMsg(1, "gpt_billing")

(***************************************************************************)
(* C19: a run that has sent a word message has made all its                *)
(* text-generation calls, none of which raised, and is not waiting for     *)
(* one; a step in which a text-generation call returns or raises sends     *)
(* nothing.  A run in which a text-generation call or a word record raised *)
(* has sent no word message.                                               *)
(***************************************************************************)
C19_WordsAfterLoop ==
    \A r \in Runs :
        /\ MsgCount(r, "word") > 0
           => /\ calls[r].n = Len(run[r].words)
              /\ run[r].pc # "chat_create"
              /\ \A k \in 1..Len(calls[r].log) : calls[r].log[k].parse # "raised"
        /\ run[r].pc = "chat_create" => MsgCount(r, "word") = 0
        /\ run[r].fault \in {"chat_create", "word_record"}
           => MsgCount(r, "word") = 0

(* the call for the second word raised after the first word was enriched:  *)
(* the run has ended without a word message                                *)
C19_Witness ==
    /\ Ended(1) /\ run[1].fault = "chat_create"
    /\ calls[1].n = 2
    /\ Len(run[1].word_list) = 1
    /\ MsgCount(1, "word") = 0
    /\ HasMsg(1, "error_in_recognition")

====
